---- MODULE Spec2Model ----
(***************************************************************************)
(* Model of the single-tenant chat gateway of src/main.py: the bearer      *)
(* credential check, the forwarding handler POST /localAPI with its        *)
(* suspension at the upstream call, the two read-only endpoints, and the   *)
(* two JSON documents kept in memory and rewritten on disk.                 *)
(*                                                                         *)
(* Representation.  Python strings that the code takes apart (the          *)
(* Authorization header, the secret) are sequences of symbols; JSON values *)
(* are tagged records ([str |-> s], [int |-> n], [list |-> q]); a missing  *)
(* key and Python's None are both the value Absent.  A dict is the         *)
(* insertion-ordered sequence of its entries, as in Python.  A file is     *)
(* [exists, text] where text is the sequence of JSON tokens written.       *)
(***************************************************************************)
EXTENDS Integers, Sequences, FiniteSets, TLC

\* ---------------------------------------------------------------- bounds
MaxPairs == 2        \* (user, bot) pairs the log may hold before arrivals stop
NumRequests == 2     \* concurrent POST /localAPI requests in flight
MaxRestarts == 1     \* process restarts explored
MaxWriteFailures == 1 \* failed file writes explored

Requests == 1..NumRequests

\* ------------------------------------------------------- values and JSON
Absent == [absent |-> TRUE]
IsAbsent(v) == DOMAIN v = {"absent"}
JStr(s) == [str |-> s]
JInt(n) == [int |-> n]
IsStr(v) == DOMAIN v = {"str"}
IsInt(v) == DOMAIN v = {"int"}

\* Python truthiness of a JSON scalar, as used by the `or` chains of
\* lines 131-140: None, "" and 0 are false.
Truthy(v) ==
  IF IsAbsent(v) THEN FALSE
  ELSE IF IsStr(v) THEN v.str # ""
  ELSE IF IsInt(v) THEN v.int # 0
  ELSE TRUE

\* dict.get(key, default) on an object whose missing keys read Absent.
Get(obj, key, default) == IF IsAbsent(obj[key]) THEN default ELSE obj[key]

\* ------------------------------------------------------------ the secret
Secret == <<"s", "k">>
WrongSecret == <<"x">>
Space == " "

\* Environment values (lines 14-16); "" is the default of os.getenv.
UserApiValues == {<< >>, Secret}
ProviderKeyValues == {<< >>, <<"p">>}
ProviderUrlValues == {<< >>, <<"u">>}

\* ---------------------------------------------------------------- files
HISTORY_FILE == "conversation_history.json"
USAGE_FILE == "usage.json"
Paths == {HISTORY_FILE, USAGE_FILE}

NoFile == [exists |-> FALSE, text |-> << >>]
File(toks) == [exists |-> TRUE, text |-> toks]

\* JSON tokens of the text written by json.dump.
P(c) == [p |-> c]
S(v) == [s |-> v]
K(k) == [k |-> k]
N(n) == [n |-> n]
IsP(tok, c) == DOMAIN tok = {"p"} /\ tok.p = c
IsS(tok) == DOMAIN tok = {"s"}
IsK(tok) == DOMAIN tok = {"k"}
IsN(tok) == DOMAIN tok = {"n"}

Turn(role, message) == [role |-> role, message |-> message]

DumpTurn_NoMessage(t) ==
  << P("{"), S(JStr("role")), P(":"), S(JStr(t.role)), P("}") >>

DumpTurn(t) ==
  << P("{"), S(JStr("role")), P(":"), S(JStr(t.role)), P(","),
     S(JStr("message")), P(":"), S(t.message), P("}") >>

RECURSIVE DumpTurns(_)
DumpTurns(q) ==
  IF q = << >> THEN << >>
  ELSE IF Len(q) = 1 THEN DumpTurn(q[1])
  ELSE DumpTurn(q[1]) \o << P(",") >> \o DumpTurns(Tail(q))

DumpEntry(e) == << K(e.key), P(":"), P("[") >> \o DumpTurns(e.turns) \o << P("]") >>

RECURSIVE DumpEntries(_)
DumpEntries(d) ==
  IF d = << >> THEN << >>
  ELSE IF Len(d) = 1 THEN DumpEntry(d[1])
  ELSE DumpEntry(d[1]) \o << P(",") >> \o DumpEntries(Tail(d))

\* json.dump(conversation_history, f): {"<key>": [ {role, message}, ... ]}
DumpHistory(d) == << P("{") >> \o DumpEntries(d) \o << P("}") >>

\* json.dump(usage_data, f): {"total_tokens": n}
DumpUsage(u) == << P("{"), S(JStr("total_tokens")), P(":"), N(u.total_tokens), P("}") >>

Fail == [ok |-> FALSE]
Ok(v, rest) == [ok |-> TRUE, val |-> v, rest |-> rest]

\* One {"role": r, "message": m} object at the head of toks.
ParseTurn(toks) ==
  IF /\ Len(toks) >= 9
     /\ IsP(toks[1], "{") /\ IsS(toks[2]) /\ toks[2].s = JStr("role")
     /\ IsP(toks[3], ":") /\ IsS(toks[4]) /\ IsStr(toks[4].s)
     /\ IsP(toks[5], ",") /\ IsS(toks[6]) /\ toks[6].s = JStr("message")
     /\ IsP(toks[7], ":") /\ IsS(toks[8]) /\ IsP(toks[9], "}")
  THEN Ok(Turn(toks[4].s.str, toks[8].s), SubSeq(toks, 10, Len(toks)))
  ELSE Fail

\* turn ("," turn)* up to the closing bracket; toks starts after "[".
RECURSIVE ParseTurns(_, _)
ParseTurns(toks, acc) ==
  IF toks # << >> /\ IsP(toks[1], "]") /\ acc = << >>
  THEN Ok(acc, Tail(toks))
  ELSE LET t == ParseTurn(toks) IN
    IF ~t.ok THEN Fail
    ELSE IF t.rest # << >> /\ IsP(t.rest[1], "]")
      THEN Ok(Append(acc, t.val), Tail(t.rest))
    ELSE IF t.rest # << >> /\ IsP(t.rest[1], ",")
      THEN ParseTurns(Tail(t.rest), Append(acc, t.val))
    ELSE Fail

\* "<key>": [ turns ] at the head of toks.
ParseEntry(toks) ==
  IF Len(toks) >= 3 /\ IsK(toks[1]) /\ IsP(toks[2], ":") /\ IsP(toks[3], "[")
  THEN LET q == ParseTurns(SubSeq(toks, 4, Len(toks)), << >>) IN
       IF q.ok THEN Ok([key |-> toks[1].k, turns |-> q.val], q.rest) ELSE Fail
  ELSE Fail

\* entry ("," entry)* up to the closing brace; toks starts after "{".
RECURSIVE ParseEntries(_, _)
ParseEntries(toks, acc) ==
  IF toks # << >> /\ IsP(toks[1], "}") /\ acc = << >>
  THEN Ok(acc, Tail(toks))
  ELSE LET e == ParseEntry(toks) IN
    IF ~e.ok THEN Fail
    ELSE IF e.rest # << >> /\ IsP(e.rest[1], "}")
      THEN Ok(Append(acc, e.val), Tail(e.rest))
    ELSE IF e.rest # << >> /\ IsP(e.rest[1], ",")
      THEN ParseEntries(Tail(e.rest), Append(acc, e.val))
    ELSE Fail

\* json.load(f): the two document shapes this program writes; anything else
\* (a truncated or empty text) raises.
json_load(toks) ==
  IF /\ Len(toks) = 5
     /\ IsP(toks[1], "{") /\ IsS(toks[2]) /\ toks[2].s = JStr("total_tokens")
     /\ IsP(toks[3], ":") /\ IsN(toks[4]) /\ IsP(toks[5], "}")
  THEN Ok([total_tokens |-> toks[4].n], << >>)
  ELSE IF toks # << >> /\ IsP(toks[1], "{")
    THEN LET d == ParseEntries(Tail(toks), << >>) IN
         IF d.ok /\ d.rest = << >> THEN Ok(d.val, << >>) ELSE Fail
  ELSE Fail


\* ------------------------------------------------------------ credentials
None == [present |-> FALSE, value |-> << >>]
Some(v) == [present |-> TRUE, value |-> v]

RECURSIVE lstrip(_)
lstrip(q) == IF q # << >> /\ q[1] = Space THEN lstrip(Tail(q)) ELSE q

RECURSIVE rstrip(_)
rstrip(q) ==
  IF q # << >> /\ q[Len(q)] = Space THEN rstrip(SubSeq(q, 1, Len(q) - 1)) ELSE q

\* str.strip()
strip(q) == rstrip(lstrip(q))

\* str.startswith("Bearer "): the word Bearer is one symbol.
StartsWithBearer(q) == Len(q) >= 2 /\ q[1] = "Bearer" /\ q[2] = Space

\* str.split(" ", 1)[1]: everything after the first space.
AfterFirstSpace(q) ==
  LET i == CHOOSE j \in 1..Len(q) : q[j] = Space /\ \A m \in 1..(j - 1) : q[m] # Space
  IN SubSeq(q, i + 1, Len(q))

\* lines 65-69
bearer_from_header(auth) ==
  IF auth.present /\ auth.value # << >> /\ StartsWithBearer(auth.value)
  THEN Some(strip(AfterFirstSpace(auth.value)))
  ELSE None

extract_api_key_QueryFirst(auth, api_key_qs) ==
  IF api_key_qs.present /\ api_key_qs.value # << >>
  THEN api_key_qs ELSE bearer_from_header(auth)

\* lines 71-73: `bearer or api_key_qs`; None and "" are false.
extract_api_key(auth, api_key_qs) ==
  LET b == bearer_from_header(auth) IN
  IF b.present /\ b.value # << >> THEN b ELSE api_key_qs

\* line 100: POST /localAPI reads the header only; a query parameter of the
\* request is not a parameter of the handler.
local_api_key_WithQuery(auth, qs) == extract_api_key(auth, qs)

local_api_key(auth, qs) == bearer_from_header(auth)

KeyDiffers_Never(key, secret) == FALSE

\* `key != USER_API` (lines 101, 158, 172)
KeyDiffers(key, secret) == ~key.present \/ key.value # secret

\* ------------------------------------------------------------ the inputs
Bearer(v) == Some(<< "Bearer", Space >> \o v)
Headers ==
  { None, Bearer(Secret), Bearer(WrongSecret), Bearer(<< >>),
    Some(<< "Bearer", Space, Space >> \o Secret \o << Space >>),
    Some(<< "Basic", Space >> \o Secret) }
QueryKeys == { None, Some(<< >>), Some(Secret), Some(WrongSecret) }

Messages == { JStr("hi"), JStr("yo") }

\* Request bodies: a JSON object with or without "message", a JSON array,
\* and a body that is not JSON.
Bodies ==
  { [kind |-> "object", message |-> m] : m \in Messages \cup {Absent} }
  \cup { [kind |-> "array", message |-> Absent],
         [kind |-> "malformed", message |-> Absent] }

\* Upstream 2xx bodies (an object); missing keys are Absent.
EmptyMessage == [content |-> Absent]
EmptyChoice == [message |-> Absent, text |-> Absent]
EmptyUsage == [total_tokens |-> Absent, total |-> Absent]
ChoiceShapes ==
  { [message |-> m, text |-> t] :
      m \in { Absent, EmptyMessage, [content |-> JStr("hello")] },
      t \in { Absent, JStr("txt") } }
ChoicesShapes ==
  { Absent, [list |-> << >>] } \cup { [list |-> << c >>] : c \in ChoiceShapes }
UsageShapes ==
  { Absent, EmptyUsage,
    [total_tokens |-> JInt(2), total |-> Absent],
    [total_tokens |-> JInt(-1), total |-> Absent],
    [total_tokens |-> JStr("abc"), total |-> Absent],
    [total_tokens |-> Absent, total |-> JInt(3)] }
Results == { [choices |-> c, usage |-> u] : c \in ChoicesShapes, u \in UsageShapes }
NoResult == [choices |-> Absent, usage |-> Absent]

\* How the awaited client.post / raise_for_status / response.json() of
\* lines 110-123 can end.
Timeouts == { "ReadTimeout", "ConnectTimeout", "WriteTimeout", "PoolTimeout" }
TransportErrors == { "ConnectError", "ReadError" }
Outcomes == Timeouts \cup TransportErrors \cup { "HTTPStatusError", "JSONDecodeError", "ok" }


\* ------------------------------------------------------------- the state
VARIABLES
  USER_API,              \* line 14
  PROVIDER_API_KEY,      \* line 15
  PROVIDER_BASE_URL,     \* line 16
  conversation_history,  \* line 32: dict identity -> list of turns
  usage_data,            \* line 33: {"total_tokens": n}
  fs,                    \* the two files on disk
  req,                   \* the POST /localAPI coroutines: where each one stands
  last,                  \* the step just taken: its inputs and its response
  wstat,                 \* per file, how the most recent write attempt ended and
                         \* whether a failed write has left the file torn
  persisted,             \* per file, the document held in memory at the last complete write
  restarts,              \* process restarts so far
  failures               \* failed writes so far

vars == << USER_API, PROVIDER_API_KEY, PROVIDER_BASE_URL, conversation_history,
           usage_data, fs, req, last, wstat, persisted, restarts, failures >>

config == << USER_API, PROVIDER_API_KEY, PROVIDER_BASE_URL >>
memory == << conversation_history, usage_data >>

\* ----------------------------------------------------------- dict helpers
HasKey(d, k) == \E i \in 1..Len(d) : d[i].key = k
Keys(d) == { d[i].key : i \in 1..Len(d) }

LogOf_AllButLast(d, k) ==
  IF HasKey(d, k)
  THEN LET q == d[CHOOSE i \in 1..Len(d) : d[i].key = k].turns IN SubSeq(q, 1, Len(q) - 1)
  ELSE << >>

\* d.get(k, [])
LogOf(d, k) ==
  IF HasKey(d, k) THEN d[CHOOSE i \in 1..Len(d) : d[i].key = k].turns ELSE << >>

\* lines 105-106: if k not in d: d[k] = []
InitLog(d, k) == IF HasKey(d, k) THEN d ELSE Append(d, [key |-> k, turns |-> << >>])

\* d[k].append(t)
AppendTurn(d, k, t) ==
  [ i \in 1..Len(d) |-> IF d[i].key = k THEN [d[i] EXCEPT !.turns = Append(@, t)] ELSE d[i] ]

AppendPair_BotFirst(d, k, message, reply_text) ==
  AppendTurn(AppendTurn(d, k, Turn("bot", reply_text)), k, Turn("user", message))

AppendPair_AtFront(d, k, message, reply_text) ==
  [ i \in 1..Len(d) |->
      IF d[i].key = k
        THEN [d[i] EXCEPT !.turns = << Turn("user", message), Turn("bot", reply_text) >> \o @]
        ELSE d[i] ]

AppendPair_UserOnly(d, k, message, reply_text) ==
  AppendTurn(d, k, Turn("user", message))

\* lines 143-144
AppendPair(d, k, message, reply_text) ==
  AppendTurn(AppendTurn(d, k, Turn("user", message)), k, Turn("bot", reply_text))

\* --------------------------------------------------------------- storage
\* lines 23-30
_load_json(files, path, fallback) ==
  IF files[path].exists
  THEN LET r == json_load(files[path].text) IN IF r.ok THEN r.val ELSE fallback
  ELSE fallback

NoHistory == << >>
NoUsage == [total_tokens |-> 0]

\* open(path, "w") then json.dump: the write completes, or open fails and the
\* file is untouched, or the file is truncated and nothing or only a part of
\* the text reaches it; lines 55 and 62 swallow the error.
WriteModes == { "ok", "open_failed", "truncated", "partial" }
Written(old, text, mode) ==
  CASE mode = "ok" -> File(text)
    [] mode = "open_failed" -> old
    [] mode = "truncated" -> File(<< >>)
    [] mode = "partial" -> File(SubSeq(text, 1, Len(text) - 1))

save_history_NotWritten(files, d, mode) == files

\* What a write attempt leaves behind: a write that could not open the file
\* leaves it as it was, torn or not.
NotWritten == [attempt |-> "none", torn |-> FALSE]
WriteStatus(old, mode) ==
  [ attempt |-> mode,
    torn |-> IF mode = "open_failed" THEN old.torn ELSE mode # "ok" ]

\* lines 51-56
save_history(files, d, mode) ==
  [files EXCEPT ![HISTORY_FILE] = Written(@, DumpHistory(d), mode)]

save_usage_NotWritten(files, u, mode) == files

\* lines 58-63
save_usage(files, u, mode) ==
  [files EXCEPT ![USAGE_FILE] = Written(@, DumpUsage(u), mode)]

\* ------------------------------------------------------------ extraction
Raised == [raised |-> TRUE]
Value(v) == [raised |-> FALSE, val |-> v]

\* lines 131-135; indexing an empty "choices" list raises IndexError.
ReplyText(result) ==
  LET choices == Get(result, "choices", [list |-> << EmptyChoice >>]) IN
  IF choices.list = << >> THEN Raised
  ELSE LET c == choices.list[1]
           content == Get(c, "message", EmptyMessage).content
       IN Value(IF Truthy(content) THEN content
                ELSE IF Truthy(c.text) THEN c.text
                ELSE JStr(""))

\* lines 136-140
UsedTokens(result) ==
  LET u == Get(result, "usage", EmptyUsage) IN
  IF Truthy(u.total_tokens) THEN u.total_tokens
  ELSE IF Truthy(u.total) THEN u.total
  ELSE JInt(0)

\* int(used_tokens or 0) of line 145; int() of a non-numeric string raises.
PyInt(v) ==
  IF ~Truthy(v) THEN Value(0)
  ELSE IF IsInt(v) THEN Value(v.int)
  ELSE Raised

\* lines 124-128: the except clauses; ReadTimeout is caught first, every
\* other httpx.HTTPError second, anything else reaches the global handler.
HTTPErrors == Timeouts \cup TransportErrors \cup { "HTTPStatusError" }

UpstreamStatus_Unanswered(outcome) == 0

UpstreamStatus(outcome) ==
  IF outcome = "ReadTimeout" THEN 504
  ELSE IF outcome \in HTTPErrors THEN 502
  ELSE 500

\* --------------------------------------------------------- response bodies
Detail(text) == [detail |-> text]
ContactOwner == [error |-> "Contact the owner"]
NoBody == [none |-> TRUE]

global_exception_handler_EchoesFault(exc) == [error |-> exc]

\* lines 75-79: every exception that is not an HTTPException is printed and
\* answered with the same body; exc is the name of the exception raised.
global_exception_handler(exc) == ContactOwner

Valid == [ok |-> TRUE, detail |-> ""]
Missing(text) == [ok |-> FALSE, detail |-> text]

ConfigCheck_SecretOnly(user_api, provider_key, provider_url) ==
  IF user_api = << >> THEN Missing("Server missing USER_API") ELSE Valid

\* lines 90-93: `not USER_API`, then `not PROVIDER_API_KEY or not PROVIDER_BASE_URL`
ConfigCheck(user_api, provider_key, provider_url) ==
  IF user_api = << >> THEN Missing("Server missing USER_API")
  ELSE IF provider_key = << >> \/ provider_url = << >> THEN Missing("Provider not configured")
  ELSE Valid

\* line 95-96: request.json() raises on a body that is not JSON, data.get on
\* a JSON value that is not an object.
BodyFault(body) == IF body.kind = "malformed" THEN "JSONDecodeError" ELSE "AttributeError"

NoRequest == [kind |-> "none", message |-> Absent]

\* What the step just taken was given and what it answered: the endpoint, the
\* response (status 0: none yet), the credentials and body of the request,
\* the message forwarded, how the upstream call ended and what it returned,
\* and the identity keys of the history mapping when the request arrived.
Event(op, status, body, auth, qs, message, outcome, result, keys0) ==
  [ op |-> op, status |-> status, body |-> body, auth |-> auth, qs |-> qs,
    request |-> NoRequest, message |-> message, outcome |-> outcome, result |-> result, keys0 |-> keys0 ]

Idle == [pc |-> "idle", message |-> Absent, keys0 |-> {}]
Awaiting(message, keys0) == [pc |-> "awaiting", message |-> message, keys0 |-> keys0]
Pending == Cardinality({ p \in Requests : req[p].pc = "awaiting" })


\* ---------------------------------------------------------------- start
\* lines 14-33: the environment is read and both documents are loaded; no
\* file exists before the first run.
Init ==
  /\ USER_API \in UserApiValues
  /\ PROVIDER_API_KEY \in ProviderKeyValues
  /\ PROVIDER_BASE_URL \in ProviderUrlValues
  /\ fs = [path \in Paths |-> NoFile]
  /\ conversation_history = _load_json(fs, HISTORY_FILE, NoHistory)
  /\ usage_data = _load_json(fs, USAGE_FILE, NoUsage)
  /\ req = [p \in Requests |-> Idle]
  /\ last = Event("start", 0, NoBody, None, None, Absent, "none", NoResult, {})
  /\ wstat = [path \in Paths |-> NotWritten]
  /\ persisted = [path \in Paths |-> IF path = HISTORY_FILE THEN conversation_history ELSE usage_data]
  /\ restarts = 0
  /\ failures = 0

\* lines 82-84
health_check ==
  /\ last' = Event("health_check", 200, [status |-> "running"], None, None, Absent,
                   "none", NoResult, Keys(conversation_history))
  /\ UNCHANGED << config, memory, fs, req, wstat, persisted, restarts, failures >>

\* lines 88-106: POST /localAPI up to the suspension at `await client.post`.
\* The coroutines are interchangeable: a new request takes the first free one.
LocalApiReceive(p, headers, queries, bodies) ==
  /\ req[p].pc = "idle"
  /\ \A q \in Requests : q < p => req[q].pc # "idle"
  /\ \E auth \in headers, qs \in queries, body \in bodies :
       LET keys0 == Keys(conversation_history)
           message == Get(body, "message", JStr(""))
           checked == ConfigCheck(USER_API, PROVIDER_API_KEY, PROVIDER_BASE_URL)
           Reject(status, b) ==
             /\ last' = [Event("local_api", status, b, auth, qs, Absent, "none", NoResult,
                               keys0) EXCEPT !.request = body]
             /\ UNCHANGED << conversation_history, req >>
       IN
       IF ~checked.ok
         THEN Reject(500, Detail(checked.detail))
       ELSE IF body.kind # "object"
         THEN Reject(500, global_exception_handler(BodyFault(body)))
       ELSE IF KeyDiffers(local_api_key(auth, qs), USER_API)
         THEN Reject(401, Detail("Invalid API key"))
       ELSE
         /\ Len(LogOf(conversation_history, USER_API)) \div 2 + Pending < MaxPairs
         /\ conversation_history' = InitLog(conversation_history, USER_API)
         /\ req' = [req EXCEPT ![p] = Awaiting(message, keys0)]
         /\ last' = [Event("local_api", 0, NoBody, auth, qs, message, "none", NoResult,
                           keys0) EXCEPT !.request = body]
  /\ UNCHANGED << config, usage_data, fs, wstat, persisted, restarts, failures >>

FailureBody(status) ==
  IF status = 504 THEN Detail("Upstream provider timeout")
  ELSE IF status = 502 THEN Detail("Upstream provider error")
  ELSE ContactOwner

\* lines 124-128 and 75-79: the body answered when the upstream call ends in
\* the exception exc.
UpstreamFailure(exc) ==
  IF exc \in HTTPErrors THEN FailureBody(UpstreamStatus(exc))
  ELSE global_exception_handler(exc)

Cost(mode) == IF mode = "ok" THEN 0 ELSE 1

\* lines 109-151: the coroutine resumes with the outcome of the upstream call
\* and runs to its response without another suspension.
LocalApiResume(p, outcomes, results, modes) ==
  /\ req[p].pc = "awaiting"
  /\ req' = [req EXCEPT ![p] = Idle]
  /\ LET message == req[p].message
         Respond(status, b, outcome, result) ==
           last' = Event("local_api", status, b, None, None, message, outcome, result,
                         req[p].keys0)
     IN
     \/ \E outcome \in outcomes \ { "ok" } :
          /\ Respond(UpstreamStatus(outcome), UpstreamFailure(outcome), outcome, NoResult)
          /\ UNCHANGED << memory, fs, wstat, persisted, failures >>
     \/ \E result \in (IF "ok" \in outcomes THEN results ELSE {}) :
          LET reply_text == ReplyText(result)
              used_tokens == UsedTokens(result)
              increment == PyInt(used_tokens)
          IN
          IF reply_text.raised
            THEN /\ Respond(500, global_exception_handler("IndexError"), "ok", result)
                 /\ UNCHANGED << memory, fs, wstat, persisted, failures >>
          ELSE LET history1 == AppendPair(conversation_history, USER_API, message,
                                          reply_text.val)
               IN
               /\ conversation_history' = history1
               /\ IF increment.raised
                    THEN /\ Respond(500, global_exception_handler("ValueError"), "ok", result)
                         /\ UNCHANGED << usage_data, fs, wstat, persisted, failures >>
                  ELSE \E wh \in modes, wu \in modes :
                    LET usage1 == [usage_data EXCEPT !.total_tokens = @ + increment.val]
                    IN
                    /\ failures + Cost(wh) + Cost(wu) <= MaxWriteFailures
                    /\ usage_data' = usage1
                    /\ fs' = save_usage(save_history(fs, history1, wh), usage1, wu)
                    /\ wstat' = [path \in Paths |->
                                   WriteStatus(wstat[path],
                                               IF path = HISTORY_FILE THEN wh ELSE wu)]
                    /\ persisted' =
                         [path \in Paths |->
                            IF path = HISTORY_FILE
                              THEN (IF wh = "ok" THEN history1 ELSE persisted[path])
                              ELSE (IF wu = "ok" THEN usage1 ELSE persisted[path])]
                    /\ failures' = failures + Cost(wh) + Cost(wu)
                    /\ Respond(200, [reply |-> reply_text.val, usage |-> used_tokens],
                               "ok", result)
  /\ UNCHANGED << config, restarts >>

\* lines 154-165
get_history(headers, queries) ==
  /\ \E auth \in headers, api_key \in queries :
       LET key == extract_api_key(auth, api_key) IN
       last' = IF KeyDiffers(key, USER_API)
                 THEN Event("get_history", 401, Detail("Invalid API key"), auth, api_key,
                            Absent, "none", NoResult, Keys(conversation_history))
                 ELSE Event("get_history", 200,
                            [conversation_history |-> LogOf(conversation_history, USER_API)],
                            auth, api_key, Absent, "none", NoResult,
                            Keys(conversation_history))
  /\ UNCHANGED << config, memory, fs, req, wstat, persisted, restarts, failures >>

\* lines 168-179
get_usage(headers, queries) ==
  /\ \E auth \in headers, api_key \in queries :
       LET key == extract_api_key(auth, api_key) IN
       last' = IF KeyDiffers(key, USER_API)
                 THEN Event("get_usage", 401, Detail("Invalid API key"), auth, api_key,
                            Absent, "none", NoResult, Keys(conversation_history))
                 ELSE Event("get_usage", 200, [usage |-> usage_data], auth, api_key,
                            Absent, "none", NoResult, Keys(conversation_history))
  /\ UNCHANGED << config, memory, fs, req, wstat, persisted, restarts, failures >>

\* The process stops (its coroutines with it) and is started again: lines
\* 32-33 load both documents from what is on disk.
Restart ==
  /\ restarts < MaxRestarts
  /\ restarts' = restarts + 1
  /\ conversation_history' = _load_json(fs, HISTORY_FILE, NoHistory)
  /\ usage_data' = _load_json(fs, USAGE_FILE, NoUsage)
  /\ req' = [p \in Requests |-> Idle]
  /\ last' = Event("restart", 0, NoBody, None, None, Absent, "none", NoResult,
                   Keys(conversation_history))
  /\ wstat' = [path \in Paths |-> NotWritten]
  /\ persisted' = [path \in Paths |->
                     IF path = HISTORY_FILE THEN conversation_history' ELSE usage_data']
  /\ UNCHANGED << config, fs, failures >>

\* Inputs of the specification of concurrency and storage: the coroutines
\* interleaved at their upstream call, every way a file write can end,
\* restarts, and the credentials, upstream outcomes and upstream bodies that
\* reach those paths (a success, a timeout, a failure, and a body whose
\* usage cannot be converted).
CoreHeaders == { Bearer(Secret) }
CoreQueries == { None }
CoreBodies == { [kind |-> "object", message |-> m] : m \in Messages }
CoreResults ==
  { [choices |-> [list |-> << [message |-> [content |-> JStr("hello")], text |-> Absent] >>],
     usage |-> [total_tokens |-> JInt(2), total |-> Absent]],
    [choices |-> [list |-> << [message |-> [content |-> JStr("hello")], text |-> Absent] >>],
     usage |-> [total_tokens |-> JStr("abc"), total |-> Absent]] }
CoreOutcomes == { "ok", "ReadTimeout", "HTTPStatusError" }

Next ==
  \/ \E p \in Requests : LocalApiReceive(p, CoreHeaders, CoreQueries, CoreBodies)
  \/ \E p \in Requests : LocalApiResume(p, CoreOutcomes, CoreResults, WriteModes)
  \/ get_history(CoreHeaders, CoreQueries)
  \/ Restart

Spec == Init /\ [][Next]_vars

\* The specification of credentials: one request at a time over every
\* header, query parameter, body and configuration; the upstream call
\* succeeds or fails and every write completes.
AuthResults ==
  { [choices |-> [list |-> << [message |-> [content |-> JStr("hello")], text |-> Absent] >>],
     usage |-> [total_tokens |-> JInt(2), total |-> Absent]] }

NextAuth ==
  \/ LocalApiReceive(1, Headers, { None, Some(Secret) }, Bodies)
  \/ LocalApiResume(1, { "ok", "ReadTimeout", "HTTPStatusError" }, AuthResults, { "ok" })
  \/ get_history(Headers, QueryKeys)
  \/ get_usage(Headers, QueryKeys)
  \/ health_check

SpecAuth == Init /\ [][NextAuth]_vars

\* The specification of upstream responses: one request at a time over
\* every way the upstream call can end and every shape of a 2xx body, with a
\* right and a wrong credential and bodies that do and do not parse; every
\* write completes.
UpstreamHeaders == { Bearer(Secret), Bearer(WrongSecret) }
UpstreamBodies ==
  { [kind |-> "object", message |-> m] : m \in { JStr("hi"), Absent } }
  \cup { [kind |-> "array", message |-> Absent], [kind |-> "malformed", message |-> Absent] }

NextUpstream ==
  \/ LocalApiReceive(1, UpstreamHeaders, CoreQueries, UpstreamBodies)
  \/ LocalApiResume(1, Outcomes, Results, { "ok" })
  \/ get_history(UpstreamHeaders, CoreQueries)
  \/ get_usage(UpstreamHeaders, CoreQueries)
  \/ health_check

SpecUpstream == Init /\ [][NextUpstream]_vars

\* The specification of progress: the coroutines interleaved at their
\* upstream call in a process that keeps running, every write completing.
\* The event loop resumes a coroutine once its awaited upstream call has
\* returned, failed or timed out (30 s, line 110): weak fairness of each
\* coroutine's resumption.
LiveModes == { "ok" }

NextLive ==
  \/ \E p \in Requests : LocalApiReceive(p, CoreHeaders, CoreQueries, CoreBodies)
  \/ \E p \in Requests : LocalApiResume(p, CoreOutcomes, CoreResults, LiveModes)
  \/ get_history(CoreHeaders, CoreQueries)

Fairness ==
  \A p \in Requests : WF_vars(LocalApiResume(p, CoreOutcomes, CoreResults, LiveModes))

SpecLive == Init /\ [][NextLive]_vars /\ Fairness


\* ================================================================ claims
Log == LogOf(conversation_history, USER_API)
FileLog == LogOf(_load_json(fs, HISTORY_FILE, NoHistory), USER_API)
FileUsage == _load_json(fs, USAGE_FILE, NoUsage)

\* The step just taken answered a POST /localAPI request after its upstream
\* call ended (e is last or last').
Answered(e) == e.op = "local_api" /\ e.outcome # "none"
\* The step just taken handled a POST /localAPI request up to its rejection
\* or its dispatch upstream.
Arrived(e) == e.op = "local_api" /\ e.outcome = "none"

\* What a 2xx upstream body reports, field by field (spec 4.2).
HasChoice(result) == ~IsAbsent(result.choices) /\ result.choices.list # << >>
ReportedReply(result) ==
  IF ~HasChoice(result) THEN Absent
  ELSE LET c == result.choices.list[1] IN
       IF ~IsAbsent(c.message) /\ ~IsAbsent(c.message.content) THEN c.message.content
       ELSE c.text
ReportedUsage(result) ==
  IF IsAbsent(result.usage) THEN Absent
  ELSE IF ~IsAbsent(result.usage.total_tokens) THEN result.usage.total_tokens
  ELSE result.usage.total

\* C1: a POST /localAPI request whose upstream call succeeds reporting reply
\* r and an integer usage t is answered 200 {reply: r, usage: t}; the
\* identity's log becomes the log before followed by the user turn with the
\* request's message and the bot turn with r, and total_tokens grows by t.
C1_SuccessAppendsPairAndAddsUsage ==
  [][ ( /\ Answered(last') /\ last'.outcome = "ok"
        /\ ~IsAbsent(ReportedReply(last'.result))
        /\ IsInt(ReportedUsage(last'.result)) )
      => LET r == ReportedReply(last'.result)
             t == ReportedUsage(last'.result)
         IN /\ last'.status = 200
            /\ last'.body = [reply |-> r, usage |-> t]
            /\ LogOf(conversation_history', USER_API)
                 = Log \o << Turn("user", last'.message), Turn("bot", r) >>
            /\ usage_data'.total_tokens = usage_data.total_tokens + t.int
    ]_vars

\* C1 witness: a second exchange was answered 200 and its pair follows the
\* pair of the first.
C1_Witness ==
  /\ Answered(last) /\ last.status = 200
  /\ Len(Log) = 4
  /\ Log[3] = Turn("user", JStr("hi"))
  /\ Log[4] = Turn("bot", JStr("txt"))
  /\ last.body = [reply |-> JStr("txt"), usage |-> JInt(3)]
  /\ usage_data.total_tokens = 5

\* C6: total_tokens is never negative and no step of the process makes it
\* smaller.
C6_TotalTokensNeverDecreases ==
  [][ /\ usage_data'.total_tokens >= usage_data.total_tokens
      /\ usage_data'.total_tokens >= 0 ]_vars

\* The reply or usage fields of a 2xx upstream body are missing, and the
\* fields that are present are well formed.
MissingFields(result) ==
  /\ IsAbsent(ReportedReply(result)) \/ IsAbsent(ReportedUsage(result))
  /\ IsAbsent(ReportedUsage(result)) \/ IsInt(ReportedUsage(result))

\* C9: a 2xx upstream body with missing reply or usage fields is answered
\* 200, with the empty string for a missing reply and zero for a missing
\* usage.
C9_MissingFieldsDegrade ==
  ( Answered(last) /\ last.outcome = "ok" /\ MissingFields(last.result) )
  => /\ last.status = 200
     /\ IsAbsent(ReportedReply(last.result)) => last.body.reply = JStr("")
     /\ IsAbsent(ReportedUsage(last.result)) => last.body.usage = JInt(0)


\* C3: every upstream timeout, whichever phase timed out, is answered 504,
\* and every other transport failure or non-2xx status is answered 502.
C3_TimeoutIs504OtherFailureIs502 ==
  Answered(last) =>
    /\ last.outcome \in Timeouts => last.status = 504
    /\ last.outcome \in TransportErrors \cup { "HTTPStatusError" } => last.status = 502

\* C4: the step that answers 502 or 504 changes neither document, in memory
\* or on disk, and the identity keys of the history mapping are then the ones
\* it had when the request arrived.
C4_UpstreamFailureLeavesStateUnchanged ==
  [][ ( Answered(last') /\ last'.status \in { 502, 504 } )
      => /\ UNCHANGED << memory, fs >>
         /\ Keys(conversation_history') = last'.keys0 ]_vars

\* A log made of complete adjacent pairs: even length, user turn then bot turn.
Paired(q) ==
  /\ Len(q) % 2 = 0
  /\ \A i \in 1..Len(q) : q[i].role = (IF i % 2 = 1 THEN "user" ELSE "bot")

\* C5: the identity's log in memory, in the history file and in the body of
\* a /history response is always made of complete adjacent (user, bot) pairs,
\* and the log in memory only ever grows by one whole pair at its end: the
\* message of a request that was awaiting its upstream call, followed by the
\* reply extracted from the upstream body that request received.
C5_PairsNeverInterleave ==
  /\ [] ( /\ Paired(Log)
          /\ Paired(FileLog)
          /\ (last.op = "get_history" /\ last.status = 200)
               => (Paired(last.body.conversation_history)
                   /\ last.body.conversation_history = Log) )
  /\ [][ \/ last'.op = "restart"
         \/ LogOf(conversation_history', USER_API) = Log
         \/ \E p \in Requests :
              /\ req[p].pc = "awaiting" /\ req'[p].pc = "idle"
              /\ Answered(last') /\ last'.outcome = "ok"
              /\ LogOf(conversation_history', USER_API)
                   = Log \o << Turn("user", req[p].message),
                               Turn("bot", ReplyText(last'.result).val) >>
       ]_vars

\* C5 witness: a request that arrived before the identity had a log is still
\* awaiting its upstream call while the pair of a later request is in the log
\* and in the file, and /history returns that pair.
C5_Witness ==
  /\ \E p \in Requests : req[p].pc = "awaiting" /\ req[p].keys0 = {}
  /\ Len(Log) = 2 /\ Len(FileLog) = 2
  /\ last.op = "get_history" /\ last.status = 200
  /\ Len(last.body.conversation_history) = 2

\* C7 as claimed: reloading either document gives the content the process
\* held in memory when it last wrote it completely.
C7_ReloadReproducesLastPersisted ==
  /\ _load_json(fs, HISTORY_FILE, NoHistory) = persisted[HISTORY_FILE]
  /\ _load_json(fs, USAGE_FILE, NoUsage) = persisted[USAGE_FILE]

TornWrite(path) == wstat[path].torn

\* C7 amended: reloading a document gives the content the process held in
\* memory when it last wrote it completely, unless a later write of that
\* document failed after truncating the file.
C7_ReloadReproducesUnlessTorn ==
  /\ ~TornWrite(HISTORY_FILE)
       => _load_json(fs, HISTORY_FILE, NoHistory) = persisted[HISTORY_FILE]
  /\ ~TornWrite(USAGE_FILE)
       => _load_json(fs, USAGE_FILE, NoUsage) = persisted[USAGE_FILE]

\* C7 witness: the process was restarted and holds the two pairs and the
\* total that the process before it had written.
C7_Witness ==
  /\ last.op = "restart"
  /\ Len(Log) = 4 /\ Log[1].message # Log[3].message
  /\ usage_data.total_tokens = 4
  /\ conversation_history = persisted[HISTORY_FILE]

\* The pair and the usage of the exchange just answered are what a reload of
\* the two files gives (e is last').
Durable(e, files, history, usage) ==
  LET q == LogOf(_load_json(files, HISTORY_FILE, NoHistory), USER_API) IN
  /\ Len(q) >= 2
  /\ q[Len(q) - 1] = Turn("user", e.message)
  /\ q[Len(q)] = Turn("bot", e.body.reply)
  /\ _load_json(files, HISTORY_FILE, NoHistory) = history
  /\ _load_json(files, USAGE_FILE, NoUsage) = usage

\* C8 as claimed: when a POST /localAPI request is answered 200, a reload of
\* the files gives a log that ends with its pair and the total that includes
\* its usage.
C8_Answered200IsDurable ==
  [][ ( Answered(last') /\ last'.status = 200 )
      => Durable(last', fs', conversation_history', usage_data') ]_vars

\* C8 amended: when a POST /localAPI request is answered 200, both writes
\* have been attempted; if both completed, a reload of the files gives a log
\* that ends with the request's pair and the total that includes its usage.
C8_Answered200IsDurableIfWritten ==
  [][ ( Answered(last') /\ last'.status = 200 )
      => /\ \A path \in Paths : wstat'[path].attempt # "none"
         /\ (\A path \in Paths : wstat'[path].attempt = "ok")
              => Durable(last', fs', conversation_history', usage_data') ]_vars

\* C8 witness: a second exchange was answered 200 after both writes completed
\* and the files hold both pairs.
C8_Witness ==
  /\ Answered(last) /\ last.status = 200
  /\ \A path \in Paths : wstat[path].attempt = "ok"
  /\ Len(FileLog) = 4 /\ FileLog = Log
  /\ FileUsage = usage_data /\ usage_data.total_tokens = 4


\* spec 4.3: a presented credential is accepted when it is present, the
\* configured secret is not empty and the two are equal.
CredentialOK(key, secret) == key.present /\ secret # << >> /\ key.value = secret

\* The credential an endpoint reads from a request (e is last or last').
Presented(e) ==
  IF e.op = "local_api" THEN bearer_from_header(e.auth) ELSE extract_api_key(e.auth, e.qs)

Reads(e) == e.op \in { "get_history", "get_usage" }
ConfigComplete == USER_API # << >> /\ PROVIDER_API_KEY # << >> /\ PROVIDER_BASE_URL # << >>

\* C2: a request to /localAPI, /history or /usage with an invalid or missing
\* credential is answered 401, whatever the configuration and the body, and
\* changes neither document in memory or on disk.
C2_InvalidCredentialIs401 ==
  [][ ( (Reads(last') \/ Arrived(last')) /\ ~CredentialOK(Presented(last'), USER_API) )
      => /\ last'.status = 401
         /\ UNCHANGED << memory, fs >> ]_vars

\* The header of the request carries the configured secret as its bearer
\* credential.
ValidBearer(auth) == CredentialOK(bearer_from_header(auth), USER_API)

PresentedExact(e) ==
  LET exact == IF e.auth.present /\ StartsWithBearer(e.auth.value)
                 THEN Some(AfterFirstSpace(e.auth.value))
                 ELSE None
  IN IF e.op = "local_api" \/ (exact.present /\ exact.value # << >>) THEN exact ELSE e.qs

\* C11: on /history and /usage a request is answered 200 exactly when it
\* presents a credential, the configured secret is not empty and the string
\* presented, with only the Bearer prefix removed, equals the secret; on
\* /localAPI a request is forwarded upstream only then, and always then once
\* the configuration is complete and the body is a JSON object.
C11_AuthenticatedIffExactMatch ==
  [][ /\ Reads(last')
         => (last'.status = 200 <=> CredentialOK(PresentedExact(last'), USER_API))
      /\ Arrived(last')
         => /\ last'.status = 0 => CredentialOK(PresentedExact(last'), USER_API)
            /\ (ConfigComplete /\ last'.request.kind = "object")
                 => (last'.status = 0 <=> CredentialOK(PresentedExact(last'), USER_API))
    ]_vars

\* The two bodies that report a missing configuration (lines 91 and 93).
ConfigMissingBodies == { Detail("Server missing USER_API"), Detail("Provider not configured") }

\* C12: a POST /localAPI request received while the secret, the provider key
\* or the provider base URL is unset is answered 500 with the
\* missing-configuration body, whatever its body and its credential, is not
\* forwarded upstream and changes neither document in memory or on disk.
C12_ConfigMissingIs500First ==
  [][ ( Arrived(last') /\ ~ConfigComplete )
      => /\ last'.status = 500
         /\ last'.body \in ConfigMissingBodies
         /\ last'.body = Detail("Server missing USER_API") <=> USER_API = << >>
         /\ UNCHANGED << memory, fs, req >> ]_vars

\* C12 witness: the secret is set and the provider key is not; a request
\* whose body is not JSON and whose credential is wrong was answered with
\* the missing-configuration 500.
C12_Witness ==
  /\ USER_API # << >> /\ PROVIDER_API_KEY = << >>
  /\ Arrived(last) /\ last.request.kind = "malformed"
  /\ last.auth = Bearer(WrongSecret)
  /\ last.status = 500 /\ last.body = Detail("Provider not configured")
  /\ \A p \in Requests : req[p].pc = "idle"

FailureStatuses == { 401, 500, 502, 504 }

\* The step just taken ended in a fault that is none of the declared
\* failures: a request body that is not a JSON object, an upstream 2xx body
\* that is not JSON, or a 2xx body the extraction or the conversion of its
\* usage fails on (e is last).
InternalFault(e) ==
  \/ Arrived(e) /\ ConfigComplete /\ e.request.kind \notin { "object", "none" }
  \/ Answered(e) /\ e.outcome \notin HTTPErrors /\ (e.outcome = "ok" => e.status # 200)

\* The one body each kind of failure is answered with, chosen by the kind
\* alone (spec 6 and 7).
FixedFailureBody(e) ==
  IF e.status = 401 THEN Detail("Invalid API key")
  ELSE IF e.status = 504 THEN Detail("Upstream provider timeout")
  ELSE IF e.status = 502 THEN Detail("Upstream provider error")
  ELSE IF Arrived(e) /\ USER_API = << >> THEN Detail("Server missing USER_API")
  ELSE IF Arrived(e) /\ ~ConfigComplete THEN Detail("Provider not configured")
  ELSE [error |-> "Contact the owner"]

IsCurrentLog(q) ==
  \/ \E i \in 1..Len(conversation_history) :
       conversation_history[i].key = USER_API /\ conversation_history[i].turns = q
  \/ q = << >> /\ \A i \in 1..Len(conversation_history) : conversation_history[i].key # USER_API

\* C14: a GET /history, GET /usage or GET /health step, answered 200 or 401,
\* starts no upstream call and changes neither document in memory or on
\* disk; /history answered 200 carries exactly the identity's current log,
\* /usage answered 200 exactly the current counters, /health the running
\* status.
C14_ReadsChangeNothing ==
  [][ ( Reads(last') \/ last'.op = "health_check" )
      => /\ UNCHANGED << memory, fs, req, config >>
         /\ last'.status \in { 200, 401 }
         /\ ( last'.op = "get_history" /\ last'.status = 200 )
              => /\ DOMAIN last'.body = { "conversation_history" }
                 /\ IsCurrentLog(last'.body.conversation_history)
         /\ ( last'.op = "get_usage" /\ last'.status = 200 )
              => last'.body = [usage |-> usage_data]
         /\ last'.op = "health_check"
              => last'.status = 200 /\ last'.body = [status |-> "running"]
    ]_vars

\* C14 witness: after an exchange, /history was answered 200 with the pair
\* while the files hold the pair and the total.
C14_Witness ==
  /\ last.op = "get_history" /\ last.status = 200
  /\ last.body.conversation_history
       = << Turn("user", JStr("hi")), Turn("bot", JStr("hello")) >>
  /\ usage_data.total_tokens = 2
  /\ FileLog = Log /\ FileUsage = usage_data

\* C15: the step in which a request's upstream call has succeeded and its
\* handler answers 200 puts the request's pair after every pair already in
\* the log, in memory and in the history file when its write completes,
\* whichever requests are still awaiting their upstream call; the arrival of
\* a request adds no turn.
C15_PairsInCompletionOrder ==
  [][ /\ ( Answered(last') /\ last'.status = 200 )
         => \E p \in Requests :
              LET log1 == LogOf(conversation_history', USER_API)
                  file1 == LogOf(_load_json(fs', HISTORY_FILE, NoHistory), USER_API)
              IN /\ req[p].pc = "awaiting" /\ req'[p].pc = "idle"
                 /\ Len(log1) = Len(Log) + 2
                 /\ SubSeq(log1, 1, Len(Log)) = Log
                 /\ log1[Len(Log) + 1] = Turn("user", req[p].message)
                 /\ log1[Len(Log) + 2] = Turn("bot", last'.body.reply)
                 /\ wstat'[HISTORY_FILE].attempt = "ok" => file1 = log1
      /\ Arrived(last') => LogOf(conversation_history', USER_API) = Log
    ]_vars

\* C15 witness: the request that arrived first, before the identity had a
\* log, was answered 200 after a request that arrived later; its pair is the
\* second one in memory and in the file.
C15_Witness ==
  /\ Answered(last) /\ last.status = 200 /\ last.keys0 = {}
  /\ restarts = 0 /\ usage_data.total_tokens = 4
  /\ Len(Log) = 4
  /\ Log[3] = Turn("user", last.message) /\ Log[1].message # last.message
  /\ FileLog = Log

\* C16: the step that answers the generic 500 after the upstream call has
\* succeeded changes neither document, in memory or on disk.
C16_FaultAfterUpstreamLeavesStateUnchanged ==
  [][ ( Answered(last') /\ last'.outcome = "ok" /\ last'.status = 500 )
      => UNCHANGED << memory, fs >> ]_vars

\* C17: an upstream call is in flight exactly while a request is awaiting it.
\* The arrival of a POST /localAPI request starts one call when the
\* configuration is complete, the body is a JSON object and the header
\* carries the secret, and none otherwise; the step that answers a request
\* ends its call and starts no other, whether the call succeeded or failed;
\* no other step starts a call.
C17_AtMostOneUpstreamCall ==
  [][ /\ Arrived(last')
         => IF ConfigComplete /\ last'.request.kind = "object" /\ ValidBearer(last'.auth)
              THEN Pending' = Pending + 1 /\ last'.status = 0
              ELSE req' = req /\ last'.status \in { 401, 500 }
      /\ Answered(last')
         => /\ Pending' = Pending - 1
            /\ \A p \in Requests : req'[p].pc = "awaiting" => req'[p] = req[p]
            /\ last'.status \in { 200, 500, 502, 504 }
      /\ ( Reads(last') \/ last'.op = "health_check" ) => req' = req
    ]_vars

\* C17 witness: the one upstream call of a request failed and the request was
\* answered 502; no call is in flight.
C17_Witness ==
  /\ ConfigComplete
  /\ Answered(last) /\ last.outcome = "HTTPStatusError" /\ last.status = 502
  /\ Pending = 0

\* The step answers 200 to a request that was awaiting its upstream call: the
\* log gains exactly that request's pair and total_tokens exactly the usage
\* its upstream body reported, whatever the other requests in flight.
GainsOwnPair ==
  \E p \in Requests :
    /\ req[p].pc = "awaiting" /\ req'[p].pc = "idle"
    /\ \A q \in Requests \ { p } : req'[q] = req[q]
    /\ LogOf(conversation_history', USER_API)
         = Log \o << Turn("user", req[p].message), Turn("bot", ReplyText(last'.result).val) >>
    /\ usage_data'.total_tokens
         = usage_data.total_tokens + PyInt(UsedTokens(last'.result)).val

\* C18 as claimed: every step that answers 200 adds exactly the request's
\* pair and usage, and after it both files hold the documents in memory.
C18_NoLostUpdate ==
  [][ ( Answered(last') /\ last'.status = 200 )
      => /\ GainsOwnPair
         /\ _load_json(fs', HISTORY_FILE, NoHistory) = conversation_history'
         /\ _load_json(fs', USAGE_FILE, NoUsage) = usage_data' ]_vars

\* C18 amended: every step that answers 200 adds exactly the request's pair
\* and usage, and after it each file whose write completed holds the
\* document in memory.
C18_NoLostUpdateWhenWritten ==
  [][ ( Answered(last') /\ last'.status = 200 )
      => /\ GainsOwnPair
         /\ wstat'[HISTORY_FILE].attempt = "ok"
              => _load_json(fs', HISTORY_FILE, NoHistory) = conversation_history'
         /\ wstat'[USAGE_FILE].attempt = "ok"
              => _load_json(fs', USAGE_FILE, NoUsage) = usage_data' ]_vars

\* C18 witness: two requests were in flight together and both were answered
\* 200 with every write completed; the log holds two pairs, the total both
\* usages, and the files hold the documents in memory.
C18_Witness ==
  /\ Answered(last) /\ last.status = 200 /\ last.keys0 = {}
  /\ restarts = 0 /\ failures = 0
  /\ Len(Log) = 4 /\ usage_data.total_tokens = 4
  /\ _load_json(fs, HISTORY_FILE, NoHistory) = conversation_history
  /\ _load_json(fs, USAGE_FILE, NoUsage) = usage_data

TerminalStatuses == { 200, 401, 500, 502, 504 }

\* Exactly the coroutine p changes, from the position `from` to the position
\* `to`.
OnlyMoves(p, from, to) ==
  /\ req[p].pc = from /\ req'[p].pc = to
  /\ \A q \in Requests \ { p } : req'[q] = req[q]

\* C19: a request that is awaiting its upstream call is eventually answered,
\* and it can be answered whichever other requests are awaiting theirs; a
\* request is answered once: at its arrival with 401 or 500, or else in the
\* one step that takes it from awaiting its upstream call to done, with 200,
\* 500, 502 or 504, and no coroutine leaves the wait in any other step.
C19_EveryRequestTerminates ==
  /\ \A p \in Requests : (req[p].pc = "awaiting") ~> (req[p].pc = "idle")
  /\ [] ( \A p \in Requests :
            req[p].pc = "awaiting"
              => ENABLED LocalApiResume(p, CoreOutcomes, CoreResults, LiveModes) )
  /\ [][ /\ Arrived(last')
            => \/ last'.status \in { 401, 500 } /\ req' = req
               \/ last'.status = 0 /\ \E p \in Requests : OnlyMoves(p, "idle", "awaiting")
         /\ Answered(last')
            => /\ last'.status \in TerminalStatuses
               /\ \E p \in Requests : OnlyMoves(p, "awaiting", "idle")
         /\ req' # req => last'.op = "local_api"
       ]_vars

\* C19 witness: a request was answered 200 while another is still awaiting
\* its upstream call.
C19_Witness ==
  /\ Answered(last) /\ last.status = 200
  /\ Pending = 1 /\ Len(Log) = 2
  /\ \E p \in Requests : req[p].pc = "awaiting" /\ req[p].message # last.message

\* The header of the request yields a bearer credential that is not empty.
HeaderBearer(e) ==
  bearer_from_header(e.auth).present /\ bearer_from_header(e.auth).value # << >>

\* C20: on /history and /usage a header that yields a non-empty bearer
\* credential decides alone, 200 when it is the secret and 401 when it is
\* not, whatever the query parameter; the query parameter decides only when
\* the header yields none.
C20_HeaderDecidesBeforeQuery ==
  [][ Reads(last')
      => IF HeaderBearer(last')
           THEN last'.status
                  = (IF bearer_from_header(last'.auth).value = USER_API THEN 200 ELSE 401)
           ELSE last'.status
                  = (IF last'.qs.present /\ last'.qs.value = USER_API THEN 200 ELSE 401)
    ]_vars

\* C20 witness: /usage was answered 401 to a wrong header credential although
\* the query parameter carried the secret.
C20_Witness ==
  /\ USER_API = Secret
  /\ last.op = "get_usage" /\ last.auth = Bearer(WrongSecret) /\ last.qs = Some(Secret)
  /\ last.status = 401

====
